---------------------------- MODULE Spec2Model ----------------------------
(***************************************************************************)
(* near-market-bot: the marketplace state tracker (src/src/tracker.ts over *)
(* src/src/api.ts), the subscription registry and matcher                  *)
(* (src/src/subscriptions.ts) and the dispatch loop (src/unnamed/part_001).*)
(***************************************************************************)
EXTENDS Integers, Sequences, FiniteSets, TLC

VARIABLES
    jobs,        \* tracker.ts state.jobs : job_id -> Job
    bids,        \* tracker.ts state.bids : bid_id -> Bid
    lastUpdate,  \* tracker.ts state.lastUpdate
    clock,       \* the wall clock read by new Date()
    changes,     \* the StateChange[] the last tracker call produced
    obs,         \* what the last tracker call fetched from the marketplace
    rerun,       \* history: the last call saw the data of the call before it
    market,      \* the job and bid identities that exist upstream
    upstream,    \* the seen bids the marketplace has accepted since
    initialized, \* part_001 line 48
    mainAt,      \* where main of part_001 lines 260-285 is
    scheduled,   \* cron.schedule of part_001 line 272 has been called
    cycle,       \* the runs of the timer callback of part_001 lines 272-276
    sent,        \* what the last postToChannel or notifySubscribers sent
    loop,        \* per run: the send notifySubscribers awaits (lines 78, 96)
    sendFaults,  \* how many calls of sendMessage will still throw
    subscriptions, \* subscriptions.ts store.subscriptions, in insertion order
    disk,        \* the content of data/subscriptions.json
    fsFaults,    \* how many writes of the file will still fail
    subject,     \* the job the last getInterestedChats was called with
    interested,  \* the chat ids the last getInterestedChats returned
    followee,    \* the agent the last getAgentFollowers was called with
    followers,   \* the chat ids the last getAgentFollowers returned
    ret          \* what the last subscribe or unsubscribe call returned

trackerVars == <<jobs, bids, lastUpdate, clock, changes, obs, rerun, market, upstream>>
botVars == <<initialized, mainAt, scheduled, cycle, sent, loop, sendFaults>>
registryVars ==
    <<subscriptions, disk, fsFaults, subject, interested, followee, followers, ret>>

vars == <<trackerVars, botVars, registryVars>>

(***************************************************************************)
(* Bounds of the model.                                                    *)
(***************************************************************************)
MaxBidCount == 2
MaxTime == 1
MaxCycles == 2
MaxEntries == 2
MaxSaveFailures == 1
MaxSendFailures == 2

JobIds == {"j1", "j2"}
BidIds == {"b1", "b2"}

(***************************************************************************)
(* api.ts: the Job and Bid records, reduced to the fields the tracker      *)
(* reads (job_id, status, bid_count; bid_id, job_id, status).              *)
(***************************************************************************)
JobStatus == {"open", "in_progress", "completed", "cancelled"}
BidStatus == {"pending", "accepted", "rejected", "withdrawn"}

Job(id, st, n) == [job_id |-> id, status |-> st, bid_count |-> n]
Bid(id, jid, st) == [bid_id |-> id, job_id |-> jid, status |-> st]
NoBid == [bid_id |-> "none", job_id |-> "none", status |-> "none"]

\* tracker.ts StateChange: type, timestamp, data (a job, or a job and a bid).
StateChange(type, now, job, bid) ==
    [type |-> type, timestamp |-> now, job |-> job, bid |-> bid]

(***************************************************************************)
(* The marketplace: which identities exist, and which job a bid belongs    *)
(* to.  A listing holds each identity at most once.  MarketOneJob has one  *)
(* job with two bids, MarketTwoJobs two jobs and one bid.                  *)
(***************************************************************************)
MarketOneJob == [jobs |-> {"j1"}, owner |-> [b \in {"b1", "b2"} |-> "j1"]]
MarketTwoJobs == [jobs |-> {"j1", "j2"}, owner |-> [b \in {"b1"} |-> "j1"]]
MarketOneBid == [jobs |-> {"j1"}, owner |-> [b \in {"b1"} |-> "j1"]]
Markets == {MarketOneJob, MarketTwoJobs, MarketOneBid}

\* The sequences without repetition over subsets of S.
Orders(S) ==
    { o \in UNION { [1..n -> S] : n \in 0..Cardinality(S) } :
        \A i, k \in DOMAIN o : i # k => o[i] # o[k] }

JobListings(m) ==
    UNION { { [i \in 1..Len(o) |-> Job(o[i], f[i][1], f[i][2])] :
                f \in [1..Len(o) -> JobStatus \X (0..MaxBidCount)] } :
            o \in Orders(m.jobs) }

BidsOf(m, j) == { b \in DOMAIN m.owner : m.owner[b] = j }

BidListings(m, j) ==
    UNION { { [i \in 1..Len(o) |-> Bid(o[i], j, f[i])] :
                f \in [1..Len(o) -> BidStatus] } :
            o \in Orders(BidsOf(m, j)) }

\* An HTTP exchange: it fails (not ok, network error, no array) or yields data.
Failed == [ok |-> FALSE, data |-> <<>>]
NotAsked == [ok |-> FALSE, data |-> <<"not asked">>]
JobResponses(m) == {Failed} \cup { [ok |-> TRUE, data |-> l] : l \in JobListings(m) }
BidResponses(m, j) == {Failed} \cup { [ok |-> TRUE, data |-> l] : l \in BidListings(m, j) }

\* The same sets, tabulated per marketplace.
JobResponsesOf == [m \in Markets |-> JobResponses(m)]
BidResponsesOf == [m \in Markets |-> [j \in JobIds |-> BidResponses(m, j)]]

\* The ways the marketplace can answer the bid requests for the jobs of F.
AnswersTo(m, F, j) == IF j \in F THEN BidResponsesOf[m][j] ELSE {NotAsked}

BidAnswers(m, F) ==
    { ("j1" :> a1) @@ ("j2" :> a2) :
        a1 \in AnswersTo(m, F, "j1"), a2 \in AnswersTo(m, F, "j2") }

(***************************************************************************)
(* api.ts fetchJobs / fetchJobBids: every failure becomes the empty list.  *)
(***************************************************************************)
fetchJobs(resp) == IF resp.ok THEN resp.data ELSE <<>>

fetchJobBids(resp) == IF resp.ok THEN resp.data ELSE <<>>

\* A map that keeps only the entry last set.
PutAlone(map, k, v) == [x \in {k} |-> v]

\* Map.set
Put(map, k, v) == [x \in (DOMAIN map) \cup {k} |-> IF x = k THEN v ELSE map[x]]

EmptyMap == [x \in {} |-> 0]

(***************************************************************************)
(* tracker.ts checkForChanges, lines 29-97.  A step state st holds the     *)
(* maps, the change list built so far and the fetchJobBids calls made.     *)
(***************************************************************************)
\* The gate opening on an equal count too. (Used to test C20.)
NewBidsOrAsMany(prevJob, job) == job.bid_count >= prevJob.bid_count

\* line 60: the gate of the bid re-fetch
NewBidsSuspected(prevJob, job) == job.bid_count > prevJob.bid_count

\* The comparison with the stored status left out.
BidAcceptedAnyway(prevBid, bid) == bid.status = "accepted"

\* line 74: a known bid that turned accepted
BidNowAccepted(prevBid, bid) ==
    prevBid.status # bid.status /\ bid.status = "accepted"

\* The comparison with the stored status left out.
JobCompletedAnyway(prevJob, job) == job.status = "completed"

\* lines 49-50: a known job that turned completed
JobNowCompleted(prevJob, job) ==
    prevJob.status # job.status /\ job.status = "completed"

\* The change put at the head of the list.
PushFirst(st, change) == [st EXCEPT !.changes = <<change>> \o @]

\* changes.push(...)
Push(st, change) == [st EXCEPT !.changes = Append(@, change)]

\* state.bids.set left out.
RecordBidNever(st, bid) == st

\* lines 70, 80: state.bids.set(bid.bid_id, bid)
RecordBid(st, bid) == [st EXCEPT !.bids = Put(@, bid.bid_id, bid)]

\* The upsert of line 88 left out.
RecordJobNever(st, job) == st

\* line 88: state.jobs.set(job.job_id, job)
RecordJob(st, job) == [st EXCEPT !.jobs = Put(@, job.job_id, job)]

\* lines 42-46
ReportNewJob(st, job, now) == Push(st, StateChange("new_job", now, job, NoBid))

\* The same, the new bid reported and not stored.
CompareBidUnstored(bid, job, now, st) ==
    IF bid.bid_id \notin DOMAIN st.bids
    THEN Push(st, StateChange("new_bid", now, job, bid))
    ELSE IF BidNowAccepted(st.bids[bid.bid_id], bid)
         THEN RecordBid(Push(st, StateChange("bid_accepted", now, job, bid)), bid)
         ELSE st

\* lines 64-82: one fetched bid
CompareBid(bid, job, now, st) ==
    IF bid.bid_id \notin DOMAIN st.bids
    THEN RecordBid(Push(st, StateChange("new_bid", now, job, bid)), bid)
    ELSE IF BidNowAccepted(st.bids[bid.bid_id], bid)
         THEN RecordBid(Push(st, StateChange("bid_accepted", now, job, bid)), bid)
         ELSE st

\* lines 63-83: the loop over the fetched bids of one job
RECURSIVE CompareBids(_, _, _, _, _)
CompareBids(bidList, k, job, now, st) ==
    IF k > Len(bidList) THEN st
    ELSE CompareBids(bidList, k + 1, job, now, CompareBid(bidList[k], job, now, st))

\* The same, only the last of the fetched bids compared.
CompareKnownJobLastBid(job, now, answers, st) ==
    LET prevJob == st.jobs[job.job_id]
        s1 == IF JobNowCompleted(prevJob, job)
              THEN Push(st, StateChange("job_completed", now, job, NoBid))
              ELSE st
        bidList == fetchJobBids(answers[job.job_id])
    IN IF NewBidsSuspected(prevJob, job)
       THEN CompareBids(bidList, IF bidList = <<>> THEN 1 ELSE Len(bidList), job, now,
                        [s1 EXCEPT !.calls = Append(@, job.job_id)])
       ELSE s1

\* lines 47-85: a job already in the snapshot
CompareKnownJob(job, now, answers, st) ==
    LET prevJob == st.jobs[job.job_id]
        s1 == IF JobNowCompleted(prevJob, job)
              THEN Push(st, StateChange("job_completed", now, job, NoBid))
              ELSE st
    IN IF NewBidsSuspected(prevJob, job)
       THEN CompareBids(fetchJobBids(answers[job.job_id]), 1, job, now,
                        [s1 EXCEPT !.calls = Append(@, job.job_id)])
       ELSE s1

\* The bids of a job seen for the first time are requested as well.
CompareJobAndItsBids(job, now, answers, st) ==
    RecordJob(IF job.job_id \notin DOMAIN st.jobs
              THEN CompareBids(fetchJobBids(answers[job.job_id]), 1, job, now,
                               [ReportNewJob(st, job, now)
                                  EXCEPT !.calls = Append(@, job.job_id)])
              ELSE CompareKnownJob(job, now, answers, st),
              job)

\* The upsert of line 88 made only for a job that caused an event.
CompareJobRecordIfReported(job, now, answers, st) ==
    LET s == IF job.job_id \notin DOMAIN st.jobs
             THEN ReportNewJob(st, job, now)
             ELSE CompareKnownJob(job, now, answers, st)
    IN IF Len(s.changes) > Len(st.changes) THEN RecordJob(s, job) ELSE s

\* Every listed job reported as new, in the snapshot or not.
CompareJobAsNew(job, now, answers, st) ==
    RecordJob(IF job.job_id \notin DOMAIN st.jobs
              THEN ReportNewJob(st, job, now)
              ELSE CompareKnownJob(job, now, answers, ReportNewJob(st, job, now)),
              job)

\* The upsert of line 88 left out when the bid request of the job failed.
CompareJobKeptOnFailure(job, now, answers, st) ==
    LET s == IF job.job_id \notin DOMAIN st.jobs
             THEN ReportNewJob(st, job, now)
             ELSE CompareKnownJob(job, now, answers, st)
    IN IF answers[job.job_id] = Failed THEN s ELSE RecordJob(s, job)

\* lines 38-88: one iteration of the loop over the listing
CompareJob(job, now, answers, st) ==
    RecordJob(IF job.job_id \notin DOMAIN st.jobs
              THEN ReportNewJob(st, job, now)
              ELSE CompareKnownJob(job, now, answers, st),
              job)

\* A failed bid request ends the loop.
RECURSIVE CompareJobsUntilFailure(_, _, _, _, _)
CompareJobsUntilFailure(currentJobs, i, now, answers, st) ==
    IF i > Len(currentJobs) THEN st
    ELSE IF answers[currentJobs[i].job_id] = Failed THEN st
    ELSE CompareJobsUntilFailure(currentJobs, i + 1, now, answers,
                                 CompareJob(currentJobs[i], now, answers, st))

\* lines 37-89
RECURSIVE CompareJobs(_, _, _, _, _)
CompareJobs(currentJobs, i, now, answers, st) ==
    IF i > Len(currentJobs) THEN st
    ELSE CompareJobs(currentJobs, i + 1, now, answers,
                     CompareJob(currentJobs[i], now, answers, st))

\* The jobs of a listing whose bids checkForChanges will request.
BidRequests(currentJobs, jobMap) ==
    { currentJobs[i].job_id : i \in
        { k \in DOMAIN currentJobs :
            /\ currentJobs[k].job_id \in DOMAIN jobMap
            /\ NewBidsSuspected(jobMap[currentJobs[k].job_id], currentJobs[k]) } }

\* Two calls were given the same data wherever both asked for it.
SameFetched(o1, o2) ==
    /\ fetchJobs(o1.jobs) = fetchJobs(o2.jobs)
    /\ \A j \in JobIds :
          (o1.bids[j] # NotAsked /\ o2.bids[j] # NotAsked)
             => fetchJobBids(o1.bids[j]) = fetchJobBids(o2.bids[j])

\* A bid the marketplace has accepted is listed as accepted.
Agrees(answers, acceptedBids) ==
    \A j \in JobIds :
      answers[j].ok =>
        \A x \in DOMAIN answers[j].data :
          answers[j].data[x].bid_id \in acceptedBids
             => answers[j].data[x].status = "accepted"

Observed(op, jr, answers, st) ==
    [op |-> op, jobs |-> jr, bids |-> answers, calls |-> st.calls]

checkForChanges ==
    \E jr \in JobResponsesOf[market] :
      \E answers \in BidAnswers(market, BidRequests(fetchJobs(jr), jobs)) :
        Agrees(answers, upstream) /\
        \E st \in { CompareJobs(fetchJobs(jr), 1, clock, answers,
                      [jobs |-> jobs, bids |-> bids, changes |-> <<>>, calls |-> <<>>]) } :
           /\ jobs' = st.jobs
           /\ bids' = st.bids
           /\ lastUpdate' = clock
           /\ changes' = st.changes
           /\ obs' = Observed("check", jr, answers, st)
           /\ rerun' = IF SameFetched(obs, obs') THEN obs.op ELSE "no"
           /\ UNCHANGED <<clock, market, upstream>>

(***************************************************************************)
(* tracker.ts initializeState, lines 102-119: called once, when the        *)
(* process starts (part_001 line 267, test-full.ts line 88).               *)
(***************************************************************************)
RECURSIVE LoadBids(_, _, _)
LoadBids(bidList, k, st) ==
    IF k > Len(bidList) THEN st
    ELSE LoadBids(bidList, k + 1, RecordBid(st, bidList[k]))

\* The job of line 108 is not stored.
LoadBidsOnly(job, answers, st) ==
    LoadBids(fetchJobBids(answers[job.job_id]), 1,
             [st EXCEPT !.calls = Append(@, job.job_id)])

\* lines 108-114
LoadJob(job, answers, st) ==
    LoadBids(fetchJobBids(answers[job.job_id]), 1,
             [RecordJob(st, job) EXCEPT !.calls = Append(@, job.job_id)])

RECURSIVE LoadJobs(_, _, _, _)
LoadJobs(listing, i, answers, st) ==
    IF i > Len(listing) THEN st
    ELSE LoadJobs(listing, i + 1, answers, LoadJob(listing[i], answers, st))

Listed(listing) == { listing[i].job_id : i \in DOMAIN listing }

initializeState ==
    /\ obs.op = "none"
    /\ \E jr \in JobResponsesOf[market] :
        \E answers \in BidAnswers(market, Listed(fetchJobs(jr))) :
          Agrees(answers, upstream) /\
          \E st \in { LoadJobs(fetchJobs(jr), 1, answers,
                        [jobs |-> jobs, bids |-> bids, changes |-> <<>>, calls |-> <<>>]) } :
             /\ jobs' = st.jobs
             /\ bids' = st.bids
             /\ lastUpdate' = clock
             /\ changes' = st.changes
             /\ obs' = Observed("init", jr, answers, st)
             /\ rerun' = "no"
             /\ UNCHANGED <<clock, market, upstream>>

\* The tracker's calls, made on their own (test-full.ts lines 85-100).
CheckForChanges == checkForChanges /\ UNCHANGED <<botVars, registryVars>>

InitializeState == initializeState /\ UNCHANGED <<botVars, registryVars>>

\* tracker.ts getStateSummary, lines 124-130
getStateSummary ==
    [jobs |-> Cardinality(DOMAIN jobs), bids |-> Cardinality(DOMAIN bids),
     lastUpdate |-> lastUpdate]

\* The marketplace accepts a bid the tracker has seen; api.ts line 31 is the
\* status the next bid listing will carry.
AcceptUpstream ==
    \E b \in DOMAIN bids :
      /\ b \notin upstream
      /\ upstream' = upstream \cup {b}
      /\ UNCHANGED <<jobs, bids, lastUpdate, clock, changes, obs, rerun, market>>
      /\ UNCHANGED <<botVars, registryVars>>

\* Time passes.
Tick ==
    /\ clock < MaxTime
    /\ clock' = clock + 1
    /\ UNCHANGED <<jobs, bids, lastUpdate, changes, obs, rerun, market, upstream>>
    /\ UNCHANGED <<botVars, registryVars>>

(***************************************************************************)
(* subscriptions.ts.  A string is a sequence of characters; agent          *)
(* identities are only compared for equality and stay atomic.              *)
(***************************************************************************)
ChatIds == {1, 2}
AgentIds == {"alice.near", "Alice.near"}

\* String.prototype.toLowerCase, on the letters of the model
LowerChar(c) == CASE c = "A" -> "a" [] c = "B" -> "b" [] OTHER -> c

toLowerCase(str) == [i \in DOMAIN str |-> LowerChar(str[i])]

\* String.prototype.includes
StrIncludes(str, part) ==
    \E i \in 0..(Len(str) - Len(part)) : SubSeq(str, i + 1, i + Len(part)) = part

\* A tag left as it was typed. (Used to test C14.)
KeepHash(str) == str

\* replace(/^#/, '') of line 139
StripHash(str) == IF Len(str) > 0 /\ str[1] = "#" THEN Tail(str) ELSE str

\* Array.prototype.includes and indexOf (0 for the code's -1)
ArrIncludes(arr, x) == \E i \in DOMAIN arr : arr[i] = x

IndexOf(arr, x) ==
    IF ArrIncludes(arr, x)
    THEN CHOOSE i \in DOMAIN arr : arr[i] = x /\ \A k \in 1..(i - 1) : arr[k] # x
    ELSE 0

\* splice(idx, 1)
Splice(arr, idx) == SubSeq(arr, 1, idx - 1) \o SubSeq(arr, idx + 1, Len(arr))

\* What the commands of part_001 lines 134-252 pass in.
KeywordArgs == { <<"a">>, <<"A", "b">> }
TagArgs == { <<"#", "a">>, <<"A">>, <<"b">> }
\* The same, and a tag typed with two '#' (the command passes on whatever
\* follows the first space, line 230).
TypedTagArgs == TagArgs \cup { <<"#", "#", "a">> }

\* lines 8-14, createdAt left out
Subscription(chatId, agents, keywords, tags) ==
    [chatId |-> chatId, agents |-> agents, keywords |-> keywords, tags |-> tags]

\* store.subscriptions.has and .get
Has(store, chatId) == \E i \in DOMAIN store : store[i].chatId = chatId

Slot(store, chatId) == CHOOSE i \in DOMAIN store : store[i].chatId = chatId

\* A lookup that sets a fresh record whether or not the chat has one.
WithSubscriptionAnew(store, chatId) ==
    Append(store, Subscription(chatId, <<>>, <<>>, <<>>))

\* lines 66-77: getSubscription adds an empty record for an unknown chat
WithSubscription(store, chatId) ==
    IF Has(store, chatId) THEN store
    ELSE Append(store, Subscription(chatId, <<>>, <<>>, <<>>))

getSubscription(store, chatId) ==
    WithSubscription(store, chatId)[Slot(WithSubscription(store, chatId), chatId)]

\* The entries a record holds, which the model bounds.
Entries(sub) == Len(sub.agents) + Len(sub.keywords) + Len(sub.tags)

\* lines 47-61: saveSubscriptions writes the whole store, or fails and logs
saveSubscriptions(store) ==
    \/ /\ disk' = store
       /\ UNCHANGED fsFaults
    \/ /\ fsFaults > 0
       /\ fsFaults' = fsFaults - 1
       /\ UNCHANGED disk

\* A no-op call that would answer true. (Used to test C13.)
UntouchedReportsChange(chatId) ==
    /\ subscriptions' = WithSubscription(subscriptions, chatId)
    /\ ret' = TRUE
    /\ UNCHANGED <<disk, fsFaults>>

\* A subscribe or unsubscribe call that found nothing to change: the record
\* getSubscription may have added stays, and nothing is saved.
Untouched(chatId) ==
    /\ subscriptions' = WithSubscription(subscriptions, chatId)
    /\ ret' = FALSE
    /\ UNCHANGED <<disk, fsFaults>>

\* The same, undoing the change when the save fails. (Used to test C17.)
ChangedIfSaved(chatId, f, v) ==
    LET store == WithSubscription(subscriptions, chatId)
        after == [store EXCEPT ![Slot(store, chatId)][f] = v]
    IN /\ ret' = TRUE
       /\ \/ /\ subscriptions' = after
             /\ disk' = after
             /\ UNCHANGED fsFaults
          \/ /\ fsFaults > 0
             /\ fsFaults' = fsFaults - 1
             /\ subscriptions' = store
             /\ UNCHANGED disk

\* A call that changed field f of the chat's record to v, and saved.
Changed(chatId, f, v) ==
    LET store == WithSubscription(subscriptions, chatId)
        after == [store EXCEPT ![Slot(store, chatId)][f] = v]
    IN /\ subscriptions' = after
       /\ saveSubscriptions(after)
       /\ ret' = TRUE

\* lines 82-90
subscribeToAgent(chatId, agentId) ==
    LET sub == getSubscription(subscriptions, chatId) IN
    IF ArrIncludes(sub.agents, agentId)
    THEN Untouched(chatId)
    ELSE Entries(sub) < MaxEntries /\ Changed(chatId, "agents", Append(sub.agents, agentId))

\* lines 95-104
unsubscribeFromAgent(chatId, agentId) ==
    LET sub == getSubscription(subscriptions, chatId)
        idx == IndexOf(sub.agents, agentId)
    IN IF idx = 0
       THEN Untouched(chatId)
       ELSE Changed(chatId, "agents", Splice(sub.agents, idx))

\* The keyword is stored as it was typed.
subscribeToKeywordAsTyped(chatId, keyword) ==
    LET sub == getSubscription(subscriptions, chatId) IN
    IF ArrIncludes(sub.keywords, keyword)
    THEN Untouched(chatId)
    ELSE Entries(sub) < MaxEntries /\ Changed(chatId, "keywords", Append(sub.keywords, keyword))

\* lines 109-118
subscribeToKeyword(chatId, keyword) ==
    LET sub == getSubscription(subscriptions, chatId)
        kw == toLowerCase(keyword)
    IN IF ArrIncludes(sub.keywords, kw)
       THEN Untouched(chatId)
       ELSE Entries(sub) < MaxEntries /\ Changed(chatId, "keywords", Append(sub.keywords, kw))

\* lines 123-132
unsubscribeFromKeyword(chatId, keyword) ==
    LET sub == getSubscription(subscriptions, chatId)
        idx == IndexOf(sub.keywords, toLowerCase(keyword))
    IN IF idx = 0
       THEN Untouched(chatId)
       ELSE Changed(chatId, "keywords", Splice(sub.keywords, idx))

\* Pushing the tag without looking for it first. (Used to test C15.)
subscribeToTagUnchecked(chatId, tag) ==
    LET sub == getSubscription(subscriptions, chatId)
        t == StripHash(toLowerCase(tag))
    IN Entries(sub) < MaxEntries /\ Changed(chatId, "tags", Append(sub.tags, t))

\* lines 137-146
subscribeToTag(chatId, tag) ==
    LET sub == getSubscription(subscriptions, chatId)
        t == StripHash(toLowerCase(tag))
    IN IF ArrIncludes(sub.tags, t)
       THEN Untouched(chatId)
       ELSE Entries(sub) < MaxEntries /\ Changed(chatId, "tags", Append(sub.tags, t))

\* The jobs getInterestedChats is asked about (lines 151-156).
Titles == { <<"A", "b">>, <<"b">> }
Descriptions == { <<>>, <<"a">> }
TagLists == { <<>>, << <<"#", "a">>, <<"A">> >> }
Creators == {"alice.near", "carol.near"}

Subjects ==
    [title : Titles, description : Descriptions, tags : TagLists,
     creator_agent_id : Creators]

NoSubject == [title |-> <<>>, description |-> <<>>, tags |-> <<>>,
              creator_agent_id |-> "none"]

\* lines 170-175: the loop over the keywords, left at the first match
RECURSIVE KeywordLoop(_, _, _, _, _, _)
KeywordLoop(keywords, k, titleLower, descLower, chatId, acc) ==
    IF k > Len(keywords) THEN acc
    ELSE IF StrIncludes(titleLower, keywords[k]) \/ StrIncludes(descLower, keywords[k])
         THEN Append(acc, chatId)
         ELSE KeywordLoop(keywords, k + 1, titleLower, descLower, chatId, acc)

\* The test of line 180 left out.
RECURSIVE TagLoopPushAgain(_, _, _, _, _)
TagLoopPushAgain(tags, k, jobTags, chatId, acc) ==
    IF k > Len(tags) THEN acc
    ELSE IF ArrIncludes(jobTags, tags[k])
         THEN Append(acc, chatId)
         ELSE TagLoopPushAgain(tags, k + 1, jobTags, chatId, acc)

\* lines 178-185: the loop over the tags, left at the first match
RECURSIVE TagLoop(_, _, _, _, _)
TagLoop(tags, k, jobTags, chatId, acc) ==
    IF k > Len(tags) THEN acc
    ELSE IF ArrIncludes(jobTags, tags[k])
         THEN (IF ~ArrIncludes(acc, chatId) THEN Append(acc, chatId) ELSE acc)
         ELSE TagLoop(tags, k + 1, jobTags, chatId, acc)

\* lines 163-185: one subscriber
MatchSubscriber(sub, job, titleLower, descLower, jobTags, acc) ==
    IF ArrIncludes(sub.agents, job.creator_agent_id)
    THEN Append(acc, sub.chatId)
    ELSE TagLoop(sub.tags, 1, jobTags, sub.chatId,
                 KeywordLoop(sub.keywords, 1, titleLower, descLower, sub.chatId, acc))

\* The loop over the store left at the first subscriber that matches.
RECURSIVE SubscriberLoopToFirst(_, _, _, _, _, _, _)
SubscriberLoopToFirst(store, i, job, titleLower, descLower, jobTags, acc) ==
    IF i > Len(store) \/ acc # <<>> THEN acc
    ELSE SubscriberLoopToFirst(store, i + 1, job, titleLower, descLower, jobTags,
                        MatchSubscriber(store[i], job, titleLower, descLower, jobTags, acc))

\* lines 162-186: the loop over the store, in insertion order
RECURSIVE SubscriberLoop(_, _, _, _, _, _, _)
SubscriberLoop(store, i, job, titleLower, descLower, jobTags, acc) ==
    IF i > Len(store) THEN acc
    ELSE SubscriberLoop(store, i + 1, job, titleLower, descLower, jobTags,
                        MatchSubscriber(store[i], job, titleLower, descLower, jobTags, acc))

\* lines 151-189
getInterestedChats(store, job) ==
    SubscriberLoop(store, 1, job,
                   toLowerCase(job.title), toLowerCase(job.description),
                   [i \in DOMAIN job.tags |-> toLowerCase(job.tags[i])], <<>>)

(***************************************************************************)
(* The calls on the registry, as the commands of part_001 lines 134-252    *)
(* and notifySubscribers (line 74) make them.                              *)
(***************************************************************************)
RegistryCall ==
    UNCHANGED <<subject, interested, followee, followers, trackerVars, botVars>>

SubscribeToAgent ==
    \E chatId \in ChatIds, agentId \in AgentIds :
      subscribeToAgent(chatId, agentId) /\ RegistryCall

UnsubscribeFromAgent ==
    \E chatId \in ChatIds, agentId \in AgentIds :
      unsubscribeFromAgent(chatId, agentId) /\ RegistryCall

SubscribeToKeyword ==
    \E chatId \in ChatIds, keyword \in KeywordArgs :
      subscribeToKeyword(chatId, keyword) /\ RegistryCall

UnsubscribeFromKeyword ==
    \E chatId \in ChatIds, keyword \in KeywordArgs :
      unsubscribeFromKeyword(chatId, keyword) /\ RegistryCall

SubscribeToTag ==
    \E chatId \in ChatIds, tag \in TagArgs :
      subscribeToTag(chatId, tag) /\ RegistryCall

SubscribeToTypedTag ==
    \E chatId \in ChatIds, tag \in TypedTagArgs :
      subscribeToTag(chatId, tag) /\ RegistryCall

GetInterestedChats ==
    \E job \in Subjects :
      /\ subject' = job
      /\ interested' = getInterestedChats(subscriptions, job)
      /\ UNCHANGED <<subscriptions, disk, fsFaults, followee, followers, ret>>
      /\ UNCHANGED <<trackerVars, botVars>>

\* An agent nobody follows is skipped no more than one somebody follows.
RECURSIVE FollowersLoopOfAnyAgent(_, _, _, _)
FollowersLoopOfAnyAgent(store, i, agentId, acc) ==
    IF i > Len(store) THEN acc
    ELSE FollowersLoopOfAnyAgent(store, i + 1, agentId,
             IF Len(store[i].agents) > 0 THEN Append(acc, store[i].chatId) ELSE acc)

\* lines 197-201: the loop over the store, in insertion order
RECURSIVE FollowersLoop(_, _, _, _)
FollowersLoop(store, i, agentId, acc) ==
    IF i > Len(store) THEN acc
    ELSE FollowersLoop(store, i + 1, agentId,
             IF ArrIncludes(store[i].agents, agentId)
             THEN Append(acc, store[i].chatId) ELSE acc)

\* lines 194-204
getAgentFollowers(store, agentId) == FollowersLoop(store, 1, agentId, <<>>)

\* notifySubscribers (part_001 line 90) asks for the followers of a bidder.
GetAgentFollowers ==
    \E agentId \in AgentIds :
      /\ followee' = agentId
      /\ followers' = getAgentFollowers(subscriptions, agentId)
      /\ UNCHANGED <<subscriptions, disk, fsFaults, subject, interested, ret>>
      /\ UNCHANGED <<trackerVars, botVars>>

\* lines 209-236: formatSubscription looks the record up with getSubscription
\* and returns a text
FormatSubscription ==
    \E chatId \in ChatIds :
      /\ subscriptions' = WithSubscription(subscriptions, chatId)
      /\ UNCHANGED <<disk, fsFaults, ret>>
      /\ RegistryCall

\* lines 24-26: the store when the module is loaded, no file yet, and a
\* file system that works
RegistryInit ==
    /\ subscriptions = <<>>
    /\ subject = NoSubject
    /\ interested = <<>>
    /\ followee = "none"
    /\ followers = <<>>
    /\ ret = FALSE

(***************************************************************************)
(* part_001: main (lines 260-285), the timer callback (lines 272-276) and  *)
(* checkAndPost (lines 114-131).  A run of the callback is in flight from  *)
(* the tick that starts it until checkAndPost returns; its awaits are the  *)
(* points where other callbacks run.                                       *)
(***************************************************************************)
Idle == [pc |-> "idle", changes |-> <<>>]

InFlight == { c \in DOMAIN cycle : cycle[c].pc # "idle" }

\* api.ts lines 10-22 and 27: what a listing says of a job besides its
\* status and bid_count, and the agent that made a bid.
Posting(job) ==
    [title |-> <<"b">>, description |-> <<>>, tags |-> <<>>,
     creator_agent_id |-> IF job.job_id = "j1" THEN "alice.near" ELSE "carol.near"]

Bidder(bid) == "Alice.near"

\* subscriptions.ts lines 30-42: the file replaces the (empty) store
loadSubscriptions == subscriptions' = disk

\* cron.schedule called before the warm-up is awaited.
ScheduledAtCall(pc) == TRUE

\* line 272 is reached when the await of line 267 is over: main is at
\* bot.start (line 280), which does not return
ScheduledAt(pc) == pc = "start"

\* lines 262-276: the registry is loaded, then warm-up, then the flag, then
\* the timer is scheduled
Main ==
    /\ ~initialized
    /\ mainAt = "none"
    /\ loadSubscriptions
    /\ initializeState
    /\ initialized' = TRUE
    /\ mainAt' = "start"
    /\ scheduled' = ScheduledAt(mainAt')
    /\ UNCHANGED <<cycle, sent, loop, sendFaults>>
    /\ UNCHANGED <<disk, fsFaults, subject, interested, followee, followers, ret>>

\* lines 272-274: a tick of the timer calls the callback, whatever the
\* callbacks of earlier ticks are doing; line 117 starts checkForChanges
\* lines 261-267: main is called (line 287), loads the registry and awaits
\* the warm-up
MainCalled ==
    /\ mainAt = "none"
    /\ loadSubscriptions
    /\ mainAt' = "initializeState"
    /\ scheduled' = ScheduledAt(mainAt')
    /\ UNCHANGED <<trackerVars, initialized, cycle, sent, loop, sendFaults>>
    /\ UNCHANGED <<disk, fsFaults, subject, interested, followee, followers, ret>>

\* lines 267-280: the warm-up returns to main, which sets the flag,
\* schedules the timer and starts the bot
WarmUpReturns ==
    /\ mainAt = "initializeState"
    /\ initializeState
    /\ initialized' = TRUE
    /\ mainAt' = "start"
    /\ scheduled' = (scheduled \/ ScheduledAt(mainAt'))
    /\ UNCHANGED <<cycle, sent, loop, sendFaults, registryVars>>

CronTick ==
    /\ scheduled
    /\ initialized
    /\ \E c \in DOMAIN cycle :
         /\ cycle[c].pc = "idle"
         /\ \A d \in DOMAIN cycle : d < c => cycle[d].pc # "idle"
         /\ cycle' = [cycle EXCEPT ![c].pc = "checkForChanges"]
    /\ UNCHANGED <<trackerVars, initialized, mainAt, scheduled, sent, loop, sendFaults, registryVars>>

\* lines 117-130: checkForChanges returns to the run that awaited it
CheckReturns ==
    \E c \in DOMAIN cycle :
      /\ cycle[c].pc = "checkForChanges"
      /\ checkForChanges
      /\ cycle' = [cycle EXCEPT ![c] =
                      IF Len(changes') > 0
                      THEN [pc |-> "postToChannel", changes |-> changes']
                      ELSE Idle]
      /\ UNCHANGED <<initialized, mainAt, scheduled, sent, loop, sendFaults, registryVars>>

\* A message handed to bot.api.sendMessage: the recipient and the event it
\* is about (the summary of line 123 is about all the events of the run).
Message(to, type, job, bid) == [to |-> to, type |-> type, job |-> job, bid |-> bid]

ChannelPost == Message("channel", "summary", "all", "all")

\* lines 77-84 and 92-103: one message per chat of the list, in its order
ToEach(chats, change) ==
    [i \in DOMAIN chats |->
        Message(chats[i], change.type, change.job.job_id, change.bid.bid_id)]

\* lines 73-75 and 88-90: whom an event goes to
Recipients(store, change) ==
    IF change.type = "new_job"
    THEN getInterestedChats(store, Posting(change.job))
    ELSE IF change.type = "new_bid" \/ change.type = "bid_accepted"
         THEN getAgentFollowers(store, Bidder(change.bid))
         ELSE <<>>

\* lines 70-109
RECURSIVE notifySubscribers(_, _)
notifySubscribers(store, chs) ==
    IF chs = <<>> THEN <<>>
    ELSE ToEach(Recipients(store, Head(chs)), Head(chs))
           \o notifySubscribers(store, Tail(chs))

\* bot.api.sendMessage returns, or throws n times out of so many calls
\* (the chat is gone, the network is down)
Thrown(n) == n <= sendFaults /\ sendFaults' = sendFaults - n

\* lines 123-124 and 53-65: the summary, which is not blank when there are
\* changes (part_000 lines 100-141), is sent to the channel; lines 62-64
\* catch what the send throws
PostToChannel ==
    \E c \in DOMAIN cycle :
      /\ cycle[c].pc = "postToChannel"
      /\ sent' = <<ChannelPost>>
      /\ Thrown(0) \/ Thrown(1)
      /\ cycle' = [cycle EXCEPT ![c].pc = "notifySubscribers"]
      /\ UNCHANGED <<trackerVars, initialized, mainAt, scheduled, loop, registryVars>>

\* No send of notifySubscribers is awaited.
NoLoop == [event |-> 0, recipients |-> <<>>, next |-> 0]

\* lines 127 and 70-109: the subscribers are notified, and the run ends; no
\* command is handled while the sends are awaited
NotifySubscribers ==
    \E c \in DOMAIN cycle :
      /\ cycle[c].pc = "notifySubscribers"
      /\ loop[c] = NoLoop
      /\ sent' = notifySubscribers(subscriptions, cycle[c].changes)
      /\ \E n \in 0..Len(sent') : Thrown(n)
      /\ cycle' = [cycle EXCEPT ![c] = Idle]
      /\ UNCHANGED <<trackerVars, initialized, mainAt, scheduled, loop, registryVars>>

(***************************************************************************)
(* notifySubscribers from one await to the next (lines 78 and 96 await     *)
(* sendMessage), so that commands can be handled in between.               *)
(***************************************************************************)
\* lines 71-90: the first event from place k on for which the lookup, made on
\* the registry as it is now, returns somebody; 0 when there is none
RECURSIVE Seek(_, _, _)
Seek(store, chs, k) ==
    IF k > Len(chs) THEN 0
    ELSE IF Recipients(store, chs[k]) # <<>> THEN k
         ELSE Seek(store, chs, k + 1)

\* A loop that walks whatever the lookup would return now.
IteratedLive(store, held, change) == Recipients(store, change)

\* lines 76 and 91: for (const chatId of ...) walks the array the lookup
\* returned
Iterated(store, held, change) == held

\* lines 78-81, 96-99: the send to the chat at place i of the list is started
StartSend(c, k, list, i) ==
    /\ loop' = [loop EXCEPT ![c] = [event |-> k, recipients |-> list, next |-> i]]
    /\ sent' = Append(sent, ToEach(list, cycle[c].changes[k])[i])
    /\ UNCHANGED cycle

\* line 109 and line 127: notifySubscribers and checkAndPost return
EndRun(c) ==
    /\ loop' = [loop EXCEPT ![c] = NoLoop]
    /\ cycle' = [cycle EXCEPT ![c] = Idle]
    /\ UNCHANGED sent

\* lines 71-90: on to the events from place k on
OnFrom(c, k) ==
    LET chs == cycle[c].changes
        at == Seek(subscriptions, chs, k)
    IN IF at = 0 THEN EndRun(c)
       ELSE StartSend(c, at, Recipients(subscriptions, chs[at]), 1)

\* lines 76-85, 91-104: the loop over the list goes on after a send
GoOn(c) ==
    LET list == Iterated(subscriptions, loop[c].recipients,
                         cycle[c].changes[loop[c].event])
    IN IF loop[c].next < Len(list)
       THEN StartSend(c, loop[c].event, list, loop[c].next + 1)
       ELSE OnFrom(c, loop[c].event + 1)

\* What a send threw is thrown on to the caller.
Rethrown(c) == EndRun(c)

\* lines 82-84, 100-102: what a send threw is caught and logged inside the
\* loop over the list
Caught(c) == GoOn(c)

\* notifySubscribers starts, or the send it awaited is over: it runs on to
\* its next send or to its end
NotifyOn ==
    \E c \in DOMAIN cycle :
      /\ cycle[c].pc = "notifySubscribers"
      /\ IF loop[c] = NoLoop
         THEN OnFrom(c, 1) /\ Thrown(0)
         ELSE \/ GoOn(c) /\ Thrown(0)
              \/ Caught(c) /\ Thrown(1)
      /\ UNCHANGED <<trackerVars, initialized, mainAt, scheduled, registryVars>>

\* A /follow or /unfollow command (lines 164-196) handled while a run of the
\* callback is at one of its awaits.
AtAwait == \E c \in DOMAIN cycle : cycle[c].pc \in {"postToChannel", "notifySubscribers"}

FollowMidRun == AtAwait /\ SubscribeToAgent

UnfollowMidRun == AtAwait /\ UnsubscribeFromAgent

(***************************************************************************)
(* The tracker on its own.  tracker.ts lines 20-24 is the state after      *)
(* construction.                                                           *)
(***************************************************************************)
NoObs == [op |-> "none", jobs |-> Failed,
          bids |-> [j \in JobIds |-> NotAsked], calls |-> <<>>]

Constructed ==
    /\ jobs = EmptyMap
    /\ bids = EmptyMap
    /\ clock = 0
    /\ lastUpdate = 0
    /\ changes = <<>>
    /\ obs = NoObs
    /\ rerun = "no"
    /\ upstream = {}
    /\ initialized = FALSE
    /\ mainAt = "none"
    /\ scheduled = FALSE
    /\ cycle = [c \in 1..MaxCycles |-> Idle]
    /\ sent = <<>>
    /\ loop = [c \in 1..MaxCycles |-> NoLoop]
    /\ RegistryInit

\* No file yet, and the file system takes every write.
TrackerInit == Constructed /\ disk = <<>> /\ fsFaults = 0 /\ sendFaults = 0

\* One job and its bids, over any number of detection cycles.
Init == TrackerInit /\ market = MarketOneJob

Next ==
    \/ CheckForChanges
    \/ InitializeState

Spec == Init /\ [][Next]_vars

\* The same, with the clock advancing between the calls.
NextClock ==
    \/ CheckForChanges
    \/ InitializeState
    \/ Tick

SpecClock == Init /\ [][NextClock]_vars

\* Two jobs in the listing: start-up and the first detection cycle.
InitTwoJobs == TrackerInit /\ market = MarketTwoJobs

FirstCheck == obs.op # "check" /\ CheckForChanges

NextTwoJobs ==
    \/ FirstCheck
    \/ InitializeState

SpecTwoJobs == InitTwoJobs /\ [][NextTwoJobs]_vars

\* Detection cycles on a tracker that warm-up loaded nothing into: every
\* job of the snapshot was put there by a detection cycle.
SpecCold == Init /\ [][CheckForChanges]_vars

\* Start-up and the first detection cycle over either marketplace: two jobs,
\* or one job with two bids.
InitEither == TrackerInit /\ market \in {MarketOneJob, MarketTwoJobs}

SpecEither == InitEither /\ [][NextTwoJobs]_vars

\* One job and one bid, which the marketplace may accept; the timer of
\* part_001 lines 272-276 keeps the detection cycles coming.
InitOneBid == TrackerInit /\ market = MarketOneBid

NextUpstream ==
    \/ CheckForChanges
    \/ InitializeState
    \/ AcceptUpstream

SpecUpstream ==
    InitOneBid /\ [][NextUpstream]_vars /\ WF_vars(CheckForChanges)

\* The bot: warm-up, then the timer and the runs of its callback.
NextBot ==
    \/ Main
    \/ CronTick
    \/ CheckReturns
    \/ PostToChannel
    \/ NotifySubscribers

SpecBot == InitOneBid /\ [][NextBot]_vars

\* The bot started over a file that earlier commands left: chat 1 follows
\* the creator of job j1, chat 2 the agent that bids. The runs of the
\* callback followed here do not overlap.
SavedRegistry ==
    << Subscription(1, <<"alice.near">>, <<>>, <<>>),
       Subscription(2, <<"Alice.near">>, <<>>, <<>>) >>

Started(failures) ==
    /\ Constructed /\ disk = SavedRegistry /\ fsFaults = 0 /\ sendFaults = failures
    /\ market = MarketOneBid

InitDispatch == Started(0)

LoneTick == InFlight = {} /\ CronTick

NextDispatch ==
    \/ Main
    \/ LoneTick
    \/ CheckReturns
    \/ PostToChannel
    \/ NotifySubscribers

SpecDispatch == InitDispatch /\ [][NextDispatch]_vars

\* The first run of the callback, with commands handled at its awaits.
FirstTick == obs.op # "check" /\ LoneTick

NextInterleaved ==
    \/ Main
    \/ FirstTick
    \/ CheckReturns
    \/ PostToChannel
    \/ NotifyOn
    \/ FollowMidRun
    \/ UnfollowMidRun

SpecInterleaved == InitDispatch /\ [][NextInterleaved]_vars

\* The start of the process from the call of main to its await and on, and
\* the runs of the callback, one at a time.
NextStartup ==
    \/ MainCalled
    \/ WarmUpReturns
    \/ LoneTick
    \/ CheckReturns
    \/ PostToChannel
    \/ NotifySubscribers

SpecStartup == InitOneBid /\ [][NextStartup]_vars

\* The first run of the callback when MaxSendFailures sends fail, with
\* /follow commands handled at its awaits.
NextSending ==
    \/ Main
    \/ FirstTick
    \/ CheckReturns
    \/ PostToChannel
    \/ NotifyOn
    \/ FollowMidRun

SpecSending == Started(MaxSendFailures) /\ [][NextSending]_vars

\* The registry under the commands of the chats, and the matcher.
NextRegistry ==
    \/ SubscribeToAgent
    \/ UnsubscribeFromAgent
    \/ SubscribeToKeyword
    \/ UnsubscribeFromKeyword
    \/ SubscribeToTag
    \/ GetInterestedChats

SpecRegistry == Init /\ [][NextRegistry]_vars

\* The two lookups of notifySubscribers over the registries that subscribe
\* commands build.
NextMatching ==
    \/ SubscribeToAgent
    \/ SubscribeToKeyword
    \/ GetInterestedChats
    \/ GetAgentFollowers

SpecMatching == Init /\ [][NextMatching]_vars

\* The registry under the commands of part_001 lines 163-250, and the
\* follower lookup.
NextCommands ==
    \/ SubscribeToAgent
    \/ UnsubscribeFromAgent
    \/ SubscribeToKeyword
    \/ UnsubscribeFromKeyword
    \/ SubscribeToTag
    \/ FormatSubscription
    \/ GetAgentFollowers

SpecCommands == Init /\ [][NextCommands]_vars

\* The registry under the same commands with tags as they may be typed.
NextTyped ==
    \/ SubscribeToAgent
    \/ UnsubscribeFromAgent
    \/ SubscribeToKeyword
    \/ UnsubscribeFromKeyword
    \/ SubscribeToTypedTag
    \/ FormatSubscription

SpecTyped == Init /\ [][NextTyped]_vars

\* The registry over a file system on which MaxSaveFailures writes fail
\* (writeFileSync or mkdirSync throwing inside the try of lines 48-60).
InitFaulty ==
    /\ Constructed /\ disk = <<>> /\ fsFaults = MaxSaveFailures /\ sendFaults = 0
    /\ market = MarketOneJob

NextFaulty ==
    \/ SubscribeToAgent
    \/ UnsubscribeFromAgent
    \/ SubscribeToKeyword
    \/ UnsubscribeFromKeyword
    \/ SubscribeToTag

SpecFaulty == InitFaulty /\ [][NextFaulty]_vars

(***************************************************************************)
(* What a step of the tracker is, and what it fetched and reported.        *)
(***************************************************************************)
CheckStep == obs'.op = "check" /\ clock' = clock /\ upstream' = upstream
WarmUpStep == obs.op = "none" /\ obs'.op = "init"

\* The listing the step fetched.
Fetched == fetchJobs(obs'.jobs)

\* The bids the step fetched for job j.
FetchedBids(j) == fetchJobBids(obs'.bids[j])

\* The positions in a change list of the events of a type about a job.
EventsFor(ch, type, j) ==
    { e \in DOMAIN ch : ch[e].type = type /\ ch[e].job.job_id = j }

\* The positions of the events of a type that carry this job and this bid.
EventsCarrying(ch, type, job, bid) ==
    { e \in DOMAIN ch : ch[e].type = type /\ ch[e].job = job /\ ch[e].bid = bid }

Requested(o, j) == \E c \in DOMAIN o.calls : o.calls[c] = j

(***************************************************************************)
(* C1: a detection cycle that observes the data the detection cycle before *)
(* it observed returns an empty change list.                               *)
(***************************************************************************)
C1_Idempotent ==
    [][ (obs.op = "check" /\ CheckStep /\ SameFetched(obs, obs'))
            => changes' = <<>> ]_vars

C1_Witness ==
    /\ obs.op = "check" /\ rerun = "check"
    /\ Len(fetchJobs(obs.jobs)) > 0
    /\ DOMAIN bids # {}

(***************************************************************************)
(* C2: a listed job whose identity is not in the job snapshot gets exactly *)
(* one new_job event, which carries it, no new_bid or bid_accepted event, *)
(* and its bids are not requested.                                         *)
(***************************************************************************)
C2_NewJobOnly ==
    [][ CheckStep =>
          \A i \in DOMAIN Fetched :
            LET J == Fetched[i] IN
            J.job_id \notin DOMAIN jobs =>
              /\ Cardinality(EventsFor(changes', "new_job", J.job_id)) = 1
              /\ Cardinality(EventsCarrying(changes', "new_job", J, NoBid)) = 1
              /\ EventsFor(changes', "new_bid", J.job_id) = {}
              /\ EventsFor(changes', "bid_accepted", J.job_id) = {}
              /\ ~Requested(obs', J.job_id) ]_vars

C2_Witness ==
    /\ obs.op = "check"
    /\ \E e \in DOMAIN changes :
          changes[e].type = "new_job" /\ changes[e].job.bid_count > 0

(***************************************************************************)
(* C3: a listed job gets a job_completed event, and exactly one, exactly   *)
(* when it was in the snapshot with another status and is listed as        *)
(* completed; no other job gets one.                                       *)
(***************************************************************************)
C3_CompletedIff ==
    [][ CheckStep =>
          /\ \A i \in DOMAIN Fetched :
               LET J == Fetched[i]
                   turned == /\ J.job_id \in DOMAIN jobs
                             /\ jobs[J.job_id].status # J.status
                             /\ J.status = "completed"
               IN /\ Cardinality(EventsFor(changes', "job_completed", J.job_id))
                        = (IF turned THEN 1 ELSE 0)
                  /\ Cardinality(EventsCarrying(changes', "job_completed", J, NoBid))
                        = (IF turned THEN 1 ELSE 0)
          /\ \A e \in DOMAIN changes' :
               changes'[e].type = "job_completed"
                  => changes'[e].job.job_id \in Listed(Fetched) ]_vars

C3_Witness ==
    /\ obs.op = "check"
    /\ \E e \in DOMAIN changes : changes[e].type = "job_completed"

(***************************************************************************)
(* C4: when a known job's bid_count rises by k and the bids fetched for it *)
(* hold k identities that are not in the bid snapshot, exactly k new_bid   *)
(* events fire for the job, one per such bid, carrying the job and the     *)
(* bid, and each such bid is in the bid snapshot afterwards.               *)
(***************************************************************************)
C4_NewBidsCounted ==
    [][ CheckStep =>
          \A i \in DOMAIN Fetched :
            LET J == Fetched[i] IN
            (J.job_id \in DOMAIN jobs /\ J.bid_count > jobs[J.job_id].bid_count) =>
              LET k == J.bid_count - jobs[J.job_id].bid_count
                  got == FetchedBids(J.job_id)
                  fresh == { x \in DOMAIN got : got[x].bid_id \notin DOMAIN bids }
              IN Cardinality(fresh) = k =>
                   /\ Cardinality(EventsFor(changes', "new_bid", J.job_id)) = k
                   /\ \A x \in fresh :
                        /\ Cardinality(EventsCarrying(changes', "new_bid", J, got[x])) = 1
                        /\ got[x].bid_id \in DOMAIN bids'
                        /\ bids'[got[x].bid_id] = got[x] ]_vars

C4_Witness ==
    /\ obs.op = "check"
    /\ Len(changes) = 1
    /\ changes[1].type = "new_bid"
    /\ changes[1].job.bid_count = 1
    /\ bids[changes[1].bid.bid_id] = changes[1].bid

(***************************************************************************)
(* C5, as stated: a bid in the bid snapshot that the marketplace accepts   *)
(* is reported by a bid_accepted event in some later detection cycle.      *)
(***************************************************************************)
C5_AcceptedEventuallyReported ==
    \A b \in BidIds :
      (b \in upstream /\ bids[b].status # "accepted")
         ~> (\E e \in DOMAIN changes :
               changes[e].type = "bid_accepted" /\ changes[e].bid.bid_id = b)

(***************************************************************************)
(* C5, as the code has it: in a detection cycle that fetches the bids of a *)
(* job (its bid_count rose), a fetched bid that is in the bid snapshot     *)
(* gets exactly one bid_accepted event, carrying the job and the bid, when *)
(* it is listed as accepted and stored with another status, and then it is *)
(* stored as accepted; it gets no event otherwise, so none when it is      *)
(* listed as rejected or withdrawn; a bid stored as accepted never gets a  *)
(* bid_accepted event; and a cycle that does not fetch the bids of a job   *)
(* reports no bid of it, accepted upstream or not.                         *)
(***************************************************************************)
C5_AcceptedOncePerRefetch ==
    [][ CheckStep =>
          /\ \A i \in DOMAIN Fetched :
               LET J == Fetched[i] IN
               \A x \in DOMAIN FetchedBids(J.job_id) :
                 LET bid == FetchedBids(J.job_id)[x] IN
                 bid.bid_id \in DOMAIN bids =>
                   LET turned == /\ bids[bid.bid_id].status # "accepted"
                                 /\ bid.status = "accepted"
                       events == { e \in DOMAIN changes' :
                                     changes'[e].bid.bid_id = bid.bid_id }
                   IN /\ Cardinality(events) = (IF turned THEN 1 ELSE 0)
                      /\ Cardinality(EventsCarrying(changes', "bid_accepted", J, bid))
                            = (IF turned THEN 1 ELSE 0)
                      /\ turned => bids'[bid.bid_id] = bid
          /\ \A b \in DOMAIN bids :
               bids[b].status = "accepted" =>
                 /\ bids'[b].status = "accepted"
                 /\ \A e \in DOMAIN changes' :
                      changes'[e].type = "bid_accepted" => changes'[e].bid.bid_id # b
          /\ \A e \in DOMAIN changes' :
               changes'[e].type = "bid_accepted" =>
                 /\ Requested(obs', changes'[e].job.job_id)
                 /\ \E x \in DOMAIN FetchedBids(changes'[e].job.job_id) :
                      FetchedBids(changes'[e].job.job_id)[x] = changes'[e].bid ]_vars

\* The marketplace accepted a stored pending bid, and the cycle that followed
\* fetched it and reported it.
C5_Witness ==
    /\ obs.op = "check"
    /\ "b1" \in upstream
    /\ Len(changes) = 1
    /\ changes[1].type = "bid_accepted"
    /\ changes[1].bid.bid_id = "b1"
    /\ bids["b1"].status = "accepted"

(***************************************************************************)
(* C6: warm-up stores every job of the listing it fetched and every bid it *)
(* fetched, and produces no StateChange; the detection cycle after it      *)
(* reports none of these jobs as new_job, and returns no change at all     *)
(* when it observes the same data.                                         *)
(***************************************************************************)
C6_WarmUpQuiet ==
    [][ /\ WarmUpStep =>
             /\ changes' = <<>>
             /\ \A i \in DOMAIN Fetched :
                  /\ Fetched[i].job_id \in DOMAIN jobs'
                  /\ jobs'[Fetched[i].job_id] = Fetched[i]
                  /\ \A x \in DOMAIN FetchedBids(Fetched[i].job_id) :
                       LET bid == FetchedBids(Fetched[i].job_id)[x] IN
                       bid.bid_id \in DOMAIN bids' /\ bids'[bid.bid_id] = bid
        /\ (obs.op = "init" /\ CheckStep) =>
             /\ \A j \in Listed(fetchJobs(obs.jobs)) :
                  EventsFor(changes', "new_job", j) = {}
             /\ SameFetched(obs, obs') => changes' = <<>> ]_vars

C6_Witness ==
    /\ obs.op = "check" /\ rerun = "init"
    /\ \E j \in DOMAIN jobs : jobs[j].bid_count > 0
    /\ DOMAIN bids # {}

(***************************************************************************)
(* C7: a detection cycle whose job-listing fetch fails returns no change   *)
(* and leaves the job map, the bid map and lastUpdate as they were.        *)
(***************************************************************************)
C7_FailedFetchLeavesState ==
    [][ (CheckStep /\ ~obs'.jobs.ok) =>
          /\ changes' = <<>>
          /\ jobs' = jobs
          /\ bids' = bids
          /\ getStateSummary' = getStateSummary ]_vars

(***************************************************************************)
(* C8: when the bid request fails for one job of the listing, that job     *)
(* gets no bid event, every job of the listing is upserted, and every      *)
(* other job, before or after it, gets its events: new_job when unknown,   *)
(* job_completed when it turned completed, new_bid for each fetched bid     *)
(* that is not in the bid snapshot.                                        *)
(***************************************************************************)
C8_FailureIsolated ==
    [][ CheckStep =>
          \A f \in DOMAIN Fetched :
            obs'.bids[Fetched[f].job_id] = Failed =>
              /\ EventsFor(changes', "new_bid", Fetched[f].job_id) = {}
              /\ EventsFor(changes', "bid_accepted", Fetched[f].job_id) = {}
              /\ \A i \in DOMAIN Fetched :
                   LET J == Fetched[i] IN
                   /\ J.job_id \in DOMAIN jobs' /\ jobs'[J.job_id] = J
                   /\ (i # f /\ J.job_id \notin DOMAIN jobs) =>
                        Cardinality(EventsCarrying(changes', "new_job", J, NoBid)) = 1
                   /\ (i # f /\ J.job_id \in DOMAIN jobs
                            /\ jobs[J.job_id].status # J.status
                            /\ J.status = "completed") =>
                        Cardinality(EventsCarrying(changes', "job_completed", J, NoBid)) = 1
                   /\ (i # f /\ J.job_id \in DOMAIN jobs
                            /\ J.bid_count > jobs[J.job_id].bid_count) =>
                        \A x \in DOMAIN FetchedBids(J.job_id) :
                          LET bid == FetchedBids(J.job_id)[x] IN
                          bid.bid_id \notin DOMAIN bids =>
                            Cardinality(EventsCarrying(changes', "new_bid", J, bid)) = 1 ]_vars

C8_Witness ==
    /\ obs.op = "check"
    /\ Len(fetchJobs(obs.jobs)) = 2
    /\ obs.bids[fetchJobs(obs.jobs)[1].job_id] = Failed
    /\ \E e \in DOMAIN changes :
          /\ changes[e].type = "new_bid"
          /\ changes[e].job = fetchJobs(obs.jobs)[2]

(***************************************************************************)
(* C9: at most one run of the timer callback (checkAndPost, with its       *)
(* checkForChanges and its sends) is in flight at any time.                *)
(***************************************************************************)
C9_OneCycleInFlight == Cardinality(InFlight) <= 1

(***************************************************************************)
(* C10: getInterestedChats returns a subscriber exactly when the job's     *)
(* creator is among the agents it follows, or one of its keywords is,      *)
(* letter case aside, a substring of the job's title or description, or    *)
(* one of its tags equals, letter case aside, a tag of the job.            *)
(***************************************************************************)
Elems(arr) == { arr[i] : i \in DOMAIN arr }

Interest(sub, job) ==
    \/ job.creator_agent_id \in Elems(sub.agents)
    \/ \E keyword \in Elems(sub.keywords) :
         \/ StrIncludes(toLowerCase(job.title), toLowerCase(keyword))
         \/ StrIncludes(toLowerCase(job.description), toLowerCase(keyword))
    \/ \E tag \in Elems(sub.tags), jobTag \in Elems(job.tags) :
         toLowerCase(tag) = toLowerCase(jobTag)

MatchStep == <<subject, interested>>' # <<subject, interested>>

C10_InterestedIff ==
    [][ MatchStep =>
          \A chatId \in ChatIds :
            ArrIncludes(interested', chatId)
              <=> \E i \in DOMAIN subscriptions :
                    /\ subscriptions[i].chatId = chatId
                    /\ Interest(subscriptions[i], subject') ]_vars

\* A subscriber returned for its keyword alone, typed and listed in
\* different letter case, and another subscriber left out.
C10_Witness ==
    /\ Len(subscriptions) = 2
    /\ subject.title = <<"A", "b">>
    /\ subject.description = <<>>
    /\ interested = <<subscriptions[2].chatId>>
    /\ subscriptions[2].agents = <<>>
    /\ subscriptions[2].tags = <<>>
    /\ subscriptions[2].keywords = << <<"a", "b">> >>
    /\ subscriptions[1].keywords = <<>>
    /\ Entries(subscriptions[1]) = 2


(***************************************************************************)
(* C11: the result of getInterestedChats holds each chat id at most once,  *)
(* also for a subscriber that matches by several rules.                    *)
(***************************************************************************)
C11_AtMostOnce ==
    [][ MatchStep =>
          \A i, k \in DOMAIN interested' :
            interested'[i] = interested'[k] => i = k ]_vars

\* A subscriber whose keyword and whose tag both match the job, returned once.
C11_Witness ==
    /\ Len(subscriptions) = 1
    /\ subscriptions[1].agents = <<>>
    /\ subscriptions[1].keywords = << <<"a">> >>
    /\ subscriptions[1].tags = << <<"a">> >>
    /\ subject.title = <<"A", "b">>
    /\ subject.tags = << <<"#", "a">>, <<"A">> >>
    /\ interested = <<subscriptions[1].chatId>>


(***************************************************************************)
(* C12: getAgentFollowers returns, once each, exactly the chats whose      *)
(* record holds the agent identity as it was given, letter case included;  *)
(* subscribeToAgent puts the agent into the chat's record and              *)
(* unsubscribeFromAgent takes it out, keywords and tags playing no role.   *)
(***************************************************************************)
FollowersStep == <<followee, followers>>' # <<followee, followers>>

AgentsOf(store, chatId) ==
    IF Has(store, chatId) THEN Elems(store[Slot(store, chatId)].agents) ELSE {}

C12_FollowersExact ==
    [][ /\ FollowersStep =>
             /\ \A chatId \in ChatIds :
                  ArrIncludes(followers', chatId)
                     <=> followee' \in AgentsOf(subscriptions, chatId)
             /\ \A i, k \in DOMAIN followers' :
                  followers'[i] = followers'[k] => i = k
        /\ \A chatId \in ChatIds, agentId \in AgentIds :
             /\ (subscribeToAgent(chatId, agentId) /\ RegistryCall) =>
                   AgentsOf(subscriptions', chatId)
                      = AgentsOf(subscriptions, chatId) \cup {agentId}
             /\ (unsubscribeFromAgent(chatId, agentId) /\ RegistryCall) =>
                   AgentsOf(subscriptions', chatId)
                      = AgentsOf(subscriptions, chatId) \ {agentId} ]_vars

\* Two chats follow agents that differ in letter case only, one of them has
\* a keyword as well; the lookup of one agent returns its follower alone.
C12_Witness ==
    /\ Len(subscriptions) = 2
    /\ subscriptions[1].agents = <<"alice.near">>
    /\ subscriptions[2].agents = <<"Alice.near">>
    /\ Len(subscriptions[2].keywords) = 1
    /\ followee = "Alice.near"
    /\ followers = <<subscriptions[2].chatId>>


\* The list f (agents, keywords or tags) of a chat's record, empty when the
\* chat has no record.
FieldOf(store, chatId, f) ==
    IF Has(store, chatId) THEN store[Slot(store, chatId)][f] ELSE <<>>

\* One call of a mutating operation returned r after taking the chat's list f
\* from before to after: r says whether the list changed, an add that changed
\* it appended the absent entry e, a remove that changed it took e out.
Returned(r, before, after, e, adding) ==
    /\ r <=> (after # before)
    /\ r = (Elems(after) # Elems(before))
    /\ IF adding
       THEN /\ r <=> ~ArrIncludes(before, e)
            /\ Elems(after) = Elems(before) \cup {e}
       ELSE /\ r <=> ArrIncludes(before, e)
            /\ Elems(after) = Elems(before) \ {e}

\* C13: each of the five mutating operations returns true exactly when it
\* changed the caller's corresponding list (it added an entry that was absent
\* or removed one that was present) and false exactly when it left the list
\* as it was (duplicate add, missing remove).
C13_TrueIffChanged ==
    [][ \A chatId \in ChatIds :
          /\ \A agentId \in AgentIds :
               /\ (subscribeToAgent(chatId, agentId) /\ RegistryCall) =>
                     Returned(ret', FieldOf(subscriptions, chatId, "agents"),
                              FieldOf(subscriptions', chatId, "agents"), agentId, TRUE)
               /\ (unsubscribeFromAgent(chatId, agentId) /\ RegistryCall) =>
                     Returned(ret', FieldOf(subscriptions, chatId, "agents"),
                              FieldOf(subscriptions', chatId, "agents"), agentId, FALSE)
          /\ \A keyword \in KeywordArgs :
               /\ (subscribeToKeyword(chatId, keyword) /\ RegistryCall) =>
                     Returned(ret', FieldOf(subscriptions, chatId, "keywords"),
                              FieldOf(subscriptions', chatId, "keywords"),
                              toLowerCase(keyword), TRUE)
               /\ (unsubscribeFromKeyword(chatId, keyword) /\ RegistryCall) =>
                     Returned(ret', FieldOf(subscriptions, chatId, "keywords"),
                              FieldOf(subscriptions', chatId, "keywords"),
                              toLowerCase(keyword), FALSE)
          /\ \A tag \in TypedTagArgs :
               (subscribeToTag(chatId, tag) /\ RegistryCall) =>
                  Returned(ret', FieldOf(subscriptions, chatId, "tags"),
                           FieldOf(subscriptions', chatId, "tags"),
                           StripHash(toLowerCase(tag)), TRUE) ]_vars

\* A chat that follows an agent and has a keyword, just after a call that
\* changed nothing and answered false (its lists are on disk as they are).
C13_Witness ==
    /\ Len(subscriptions) = 1
    /\ subscriptions[1].agents = <<"alice.near">>
    /\ subscriptions[1].keywords = << <<"a">> >>
    /\ disk = subscriptions
    /\ ret = FALSE


\* Tag names, and the ways of writing the tag t: as it is, in lower case, and
\* each of the two behind a '#'.
TagNames == { <<"A">>, <<"b">> }

Forms(t) == { t, toLowerCase(t), <<"#">> \o t, <<"#">> \o toLowerCase(t) }

\* The chat is subscribed to the tag t.
Tagged(store, chatId, t) == ArrIncludes(FieldOf(store, chatId, "tags"), toLowerCase(t))

\* For the tags of names, in one step: a call with one form of t is a call
\* with any other form (the same registry, file and answer afterwards); it
\* leaves the chat subscribed to t; a chat subscribed to t stays so; and a
\* call with any form of t by a chat subscribed to t answers false and changes
\* neither the registry nor the file.
TagNormalized(names) ==
    \A chatId \in ChatIds, t \in names :
      /\ Tagged(subscriptions, chatId, t) => Tagged(subscriptions', chatId, t)
      /\ \A x \in Forms(t) :
           (subscribeToTag(chatId, x) /\ RegistryCall) =>
              /\ \A y \in Forms(t) : subscribeToTag(chatId, y)
              /\ Tagged(subscriptions', chatId, t)
              /\ Tagged(subscriptions, chatId, t) =>
                    /\ ret' = FALSE
                    /\ subscriptions' = subscriptions
                    /\ disk' = disk

\* C14 as stated: for any subscriber s and any tag t, subscribeToTag(s, "#"+t)
\* and subscribeToTag(s, t), in any letter case, leave the registry in the
\* same state, and after the first of them any further call with either form
\* returns false and changes nothing. A tag that itself begins with '#' is
\* among the tags.
C14_AnyTagNormalized == [][ TagNormalized(TagNames \cup { <<"#", "a">> }) ]_vars

\* C14, amended: the same for any tag t that does not itself begin with '#'.
C14_PlainTagNormalized == [][ TagNormalized(TagNames) ]_vars

\* A chat whose only entry is the tag a, just after a call that answered
\* false.
C14_Witness ==
    /\ Len(subscriptions) = 1
    /\ subscriptions[1].agents = <<>>
    /\ subscriptions[1].keywords = <<>>
    /\ subscriptions[1].tags = << <<"a">> >>
    /\ disk = subscriptions
    /\ ret = FALSE


NoDuplicates(arr) == \A i, k \in DOMAIN arr : arr[i] = arr[k] => i = k

\* No two entries that differ only in case.
NoCaseTwins(arr) ==
    \A i, k \in DOMAIN arr : toLowerCase(arr[i]) = toLowerCase(arr[k]) => i = k

LowerCased(arr) == \A i \in DOMAIN arr : toLowerCase(arr[i]) = arr[i]

NoLeadingHash(arr) == \A i \in DOMAIN arr : arr[i] = <<>> \/ arr[i][1] # "#"

\* What C15 says of every record, the leading '#' apart.
SetsKept(sub) ==
    /\ NoDuplicates(sub.agents)
    /\ NoDuplicates(sub.keywords) /\ LowerCased(sub.keywords) /\ NoCaseTwins(sub.keywords)
    /\ NoDuplicates(sub.tags) /\ LowerCased(sub.tags) /\ NoCaseTwins(sub.tags)

\* C15 as stated: in every state reachable from the empty registry no list of
\* a record holds an entry twice, keywords and tags are stored lower-cased,
\* so that no two of them differ only in case, and no stored tag has a
\* leading '#'.
C15_SetsAndNoHash ==
    \A i \in DOMAIN subscriptions :
      SetsKept(subscriptions[i]) /\ NoLeadingHash(subscriptions[i].tags)

\* C15, amended: the same without the last part; a stored tag is the typed
\* one in lower case less one leading '#' (C13, C14), so it may begin with '#'.
C15_SetsKept == \A i \in DOMAIN subscriptions : SetsKept(subscriptions[i])

\* One chat follows two agents whose names differ only in case; the other
\* typed the keyword Ab and a tag form of a.
C15_Witness ==
    /\ Len(subscriptions) = 2
    /\ subscriptions[1].agents = <<"alice.near", "Alice.near">>
    /\ subscriptions[2].keywords = << <<"a", "b">> >>
    /\ subscriptions[2].tags = << <<"a">> >>


\* C16: with saves that succeed, the saved registry is the registry in memory
\* after every completed operation, a no-op unsubscribe and formatSubscription
\* for a chat without a record included.
C16_DiskIsRegistry == fsFaults = 0 => disk = subscriptions


\* The step is a call whose save failed.
SaveFailed == fsFaults' < fsFaults

\* C17: a mutating operation whose save fails keeps its change in memory and
\* returns true, leaving the file as it was; a save that succeeds writes the
\* whole registry in memory, the changes whose saves failed included.
C17_FailedSaveKeepsChange ==
    [][ /\ SaveFailed =>
             /\ \E chatId \in ChatIds, f \in {"agents", "keywords", "tags"} :
                  FieldOf(subscriptions', chatId, f) # FieldOf(subscriptions, chatId, f)
             /\ ret' = TRUE
             /\ disk' = disk
        /\ (ret' = TRUE /\ ~SaveFailed) => disk' = subscriptions'
        /\ disk' # disk => disk' = subscriptions' ]_vars

\* The one failing write is behind, and the file holds both agents a chat
\* followed, whichever of the saves failed.
C17_Witness ==
    /\ fsFaults = 0
    /\ Len(subscriptions) = 1
    /\ subscriptions[1].agents = <<"alice.near", "Alice.near">>
    /\ disk = subscriptions


\* C19: whenever the bids of a job are fetched again in a detection cycle,
\* every returned bid is in the bid snapshot with its fetched status after
\* the cycle, whether or not an event was emitted for it.
C19_RefetchedStatusStored ==
    [][ CheckStep =>
          \A j \in JobIds :
            Requested(obs', j) =>
              \A i \in DOMAIN FetchedBids(j) :
                LET bid == FetchedBids(j)[i] IN
                /\ bid.bid_id \in DOMAIN bids'
                /\ bids'[bid.bid_id].status = bid.status ]_vars


\* The listed job with this identity is in the job snapshot with a lower
\* bid_count than the listing gives it.
CountRose(j) ==
    \E i \in DOMAIN Fetched :
      /\ Fetched[i].job_id = j
      /\ j \in DOMAIN jobs
      /\ Fetched[i].bid_count > jobs[j].bid_count

\* C20: a detection cycle fetches the bids of a job exactly when the job is
\* listed, is in the job snapshot, and is listed with a bid_count strictly
\* greater than the stored one; for any other job the cycle returns no
\* new_bid and no bid_accepted event and leaves its bids in the bid snapshot
\* as they were, whatever the marketplace has accepted meanwhile.
C20_RefetchGate ==
    [][ CheckStep =>
          \A j \in JobIds :
            /\ Requested(obs', j) <=> CountRose(j)
            /\ ~CountRose(j) =>
                 /\ EventsFor(changes', "new_bid", j) = {}
                 /\ EventsFor(changes', "bid_accepted", j) = {}
                 /\ \A b \in BidsOf(market, j) :
                      /\ b \in DOMAIN bids' <=> b \in DOMAIN bids
                      /\ b \in DOMAIN bids => bids'[b] = bids[b] ]_vars

\* The marketplace has accepted the stored bid b1, the last detection cycle
\* listed its job without asking for the job's bids, and b1 is stored as
\* pending.
C20_Witness ==
    /\ obs.op = "check"
    /\ Len(fetchJobs(obs.jobs)) = 1
    /\ obs.calls = <<>>
    /\ changes = <<>>
    /\ "b1" \in upstream
    /\ bids["b1"].status = "pending"


\* The run c of the callback left the place pc in this step.
Left(c, pc) == cycle[c].pc = pc /\ cycle'[c].pc # pc

\* The chats an event of a run should reach: those the interest matcher
\* returns for the job of a new_job or job_completed event, and the
\* followers of the bidder for a new_bid or bid_accepted event.
ShouldReach(change, chatId) ==
    IF change.type \in {"new_job", "job_completed"}
    THEN \E i \in DOMAIN subscriptions :
           /\ subscriptions[i].chatId = chatId
           /\ Interest(subscriptions[i], Posting(change.job))
    ELSE Bidder(change.bid) \in AgentsOf(subscriptions, chatId)

Reached(log, change, chatId) ==
    \E m \in DOMAIN log :
      log[m] = Message(chatId, change.type, change.job.job_id, change.bid.bid_id)

\* C18: in a run of the callback the change detector runs first; a run with
\* no event sends nothing; otherwise one summary goes to the channel, and
\* after it every event goes to the subscribers: a new_job or job_completed
\* event to the chats the interest matcher returns for its job, a new_bid or
\* bid_accepted event to the followers of the bidder.
C18_EveryEventRouted ==
    [][ \A c \in DOMAIN cycle :
          /\ Left(c, "checkForChanges") =>
               /\ CheckStep
               /\ sent' = sent
               /\ IF changes' = <<>>
                  THEN cycle'[c] = Idle
                  ELSE cycle'[c] = [pc |-> "postToChannel", changes |-> changes']
          /\ Left(c, "postToChannel") =>
               /\ sent' = <<ChannelPost>>
               /\ cycle'[c] = [cycle[c] EXCEPT !.pc = "notifySubscribers"]
          /\ Left(c, "notifySubscribers") =>
               /\ cycle'[c] = Idle
               /\ \A e \in DOMAIN cycle[c].changes, chatId \in ChatIds :
                    Reached(sent', cycle[c].changes[e], chatId)
                      <=> ShouldReach(cycle[c].changes[e], chatId) ]_vars


\* C21: after a detection cycle, the job snapshot holds every job of the
\* listing the cycle fetched exactly as listed, status and bid_count
\* included, whether or not an event was returned for it and whether or not
\* the request for its bids succeeded.
C21_ListedJobStored ==
    [][ CheckStep =>
          \A i \in DOMAIN Fetched :
            /\ Fetched[i].job_id \in DOMAIN jobs'
            /\ jobs'[Fetched[i].job_id] = Fetched[i] ]_vars

\* A cycle listed a known job with a higher bid_count and another status,
\* the request for its bids failed, no event was returned, and the job is
\* stored as listed.
C21_Witness ==
    /\ obs.op = "check"
    /\ Len(fetchJobs(obs.jobs)) = 1
    /\ Requested(obs, "j1")
    /\ obs.bids["j1"] = Failed
    /\ changes = <<>>
    /\ jobs["j1"] = fetchJobs(obs.jobs)[1]
    /\ jobs["j1"].bid_count = MaxBidCount
    /\ jobs["j1"].status = "in_progress"


\* The events of a change list that are about the job j.
EventsAbout(ch, j) == { e \in DOMAIN ch : ch[e].job.job_id = j }

\* C22: no call of the tracker takes a job or a bid out of the store, so the
\* counts getStateSummary returns never go down; and a stored job that the
\* listing of a detection cycle does not hold keeps its record and gets no
\* event.
C22_StoreOnlyGrows ==
    [][ /\ DOMAIN jobs \subseteq DOMAIN jobs'
        /\ DOMAIN bids \subseteq DOMAIN bids'
        /\ getStateSummary'.jobs >= getStateSummary.jobs
        /\ getStateSummary'.bids >= getStateSummary.bids
        /\ CheckStep =>
             \A j \in DOMAIN jobs :
               j \notin Listed(Fetched) =>
                 /\ jobs'[j] = jobs[j]
                 /\ EventsAbout(changes', j) = {} ]_vars

\* The last detection cycle fetched a listing without any job; the job and
\* the bids seen before are in the store, and nothing was reported.
C22_Witness ==
    /\ obs.op = "check"
    /\ obs.jobs.ok
    /\ obs.jobs.data = <<>>
    /\ "j1" \in DOMAIN jobs
    /\ DOMAIN bids = {"b1", "b2"}
    /\ changes = <<>>


\* The place of x, by identity, in a fetched listing that holds it once.
PlaceOfJob(listing, j) == CHOOSE i \in DOMAIN listing : listing[i].job_id = j
PlaceOfBid(listing, b) == CHOOSE i \in DOMAIN listing : listing[i].bid_id = b

BidEvent(change) == change.type \in {"new_bid", "bid_accepted"}

\* C23: the change list of a detection cycle follows the fetched job listing:
\* every event is about a listed job, events of a job listed earlier come
\* first, the job_completed event of a job comes before its bid events, and
\* the bid events of a job follow the order of the bid listing fetched for it.
C23_EmissionOrder ==
    [][ CheckStep =>
          /\ \A e \in DOMAIN changes' : changes'[e].job.job_id \in Listed(Fetched)
          /\ \A e1, e2 \in DOMAIN changes' :
               e1 < e2 =>
                 LET c1 == changes'[e1]
                     c2 == changes'[e2]
                 IN /\ PlaceOfJob(Fetched, c1.job.job_id) <= PlaceOfJob(Fetched, c2.job.job_id)
                    /\ c1.job.job_id = c2.job.job_id =>
                         /\ c2.type # "job_completed"
                         /\ BidEvent(c1) => BidEvent(c2)
                         /\ (BidEvent(c1) /\ BidEvent(c2)) =>
                              PlaceOfBid(FetchedBids(c1.job.job_id), c1.bid.bid_id)
                                < PlaceOfBid(FetchedBids(c1.job.job_id), c2.bid.bid_id) ]_vars

\* A cycle listed j2 before j1: the event of j2 is first, then job_completed
\* and new_bid of j1.
C23_Witness ==
    /\ obs.op = "check"
    /\ Len(fetchJobs(obs.jobs)) = 2
    /\ fetchJobs(obs.jobs)[1].job_id = "j2"
    /\ Len(changes) = 3
    /\ changes[1].job.job_id = "j2"
    /\ changes[2].type = "job_completed" /\ changes[2].job.job_id = "j1"
    /\ changes[3].type = "new_bid" /\ changes[3].job.job_id = "j1"


\* The chat ids, in the order of the store, of the records that pass a test
\* on the record alone.
ChatsOf(records) == [i \in DOMAIN records |-> records[i].chatId]

InterestedIn(store, job) ==
    ChatsOf(SelectSeq(store, LAMBDA sub : Interest(sub, job)))

FollowingAgent(store, agentId) ==
    ChatsOf(SelectSeq(store, LAMBDA sub : agentId \in Elems(sub.agents)))

RegistryKept == UNCHANGED <<subscriptions, disk, fsFaults, ret>>

\* C24: a call of getInterestedChats or getAgentFollowers leaves the registry
\* and its file as they were, and its result is a function of the registry
\* and the payload in which every subscriber is in or out by its own record
\* alone.
C24_MatchingPure ==
    [][ /\ MatchStep =>
             /\ RegistryKept
             /\ interested' = InterestedIn(subscriptions, subject')
        /\ FollowersStep =>
             /\ RegistryKept
             /\ followers' = FollowingAgent(subscriptions, followee') ]_vars

\* Two chats with different records are both interested in the last job
\* asked about, and one of them follows the last agent asked about.
C24_Witness ==
    /\ Len(subscriptions) = 2
    /\ subscriptions[1].agents = <<"alice.near">>
    /\ subscriptions[2].keywords = << <<"a">> >>
    /\ interested = ChatsOf(subscriptions)
    /\ followee = "alice.near"
    /\ followers = <<subscriptions[1].chatId>>
    /\ disk = subscriptions


\* What the lookup for an event returns on a registry, said record by record.
LookupOn(store, change) ==
    IF change.type = "new_job" THEN InterestedIn(store, Posting(change.job))
    ELSE IF BidEvent(change) THEN FollowingAgent(store, Bidder(change.bid))
    ELSE <<>>

\* C25: with commands handled at the awaits of a run, the list a lookup
\* returns for an event is the result for the whole registry as it is at the
\* call; the list stays as returned while its sends are awaited, whatever
\* subscribe or unsubscribe is handled meanwhile; the sends go to its chats in
\* its order; and the run leaves an event only after the last of them.
C25_HeldListIterated ==
    [][ \A c \in DOMAIN cycle :
          LET chs == cycle[c].changes IN
          /\ (loop'[c] # NoLoop /\ loop'[c].event # loop[c].event) =>
               /\ subscriptions' = subscriptions
               /\ loop'[c].recipients = LookupOn(subscriptions, chs[loop'[c].event])
               /\ loop'[c].next = 1
          /\ (loop[c] # NoLoop /\ loop'[c].event = loop[c].event) =>
               /\ loop'[c].recipients = loop[c].recipients
               /\ loop'[c].next \in {loop[c].next, loop[c].next + 1}
          /\ (loop'[c] # NoLoop /\ loop'[c] # loop[c]) =>
               sent' = Append(sent, Message(loop'[c].recipients[loop'[c].next],
                                            chs[loop'[c].event].type,
                                            chs[loop'[c].event].job.job_id,
                                            chs[loop'[c].event].bid.bid_id))
          /\ (loop[c] # NoLoop /\ loop'[c].event # loop[c].event) =>
               loop[c].next = Len(loop[c].recipients) ]_vars

\* Both chats were returned as followers of the bidder, the message to the
\* second has been sent, and by now the second chat follows nobody.
C25_Witness ==
    /\ loop[1].recipients = <<1, 2>>
    /\ loop[1].next = 2
    /\ sent[Len(sent)].to = 2
    /\ AgentsOf(subscriptions, 2) = {}


\* A send threw in this step.
SendFailed == sendFaults' < sendFaults

\* The events after place k of a run's change list that somebody is to get,
\* on the registry as it is.
StillToSend(chs, k) ==
    { e \in DOMAIN chs : e > k /\ LookupOn(subscriptions, chs[e]) # <<>> }

Least(S) == CHOOSE x \in S : \A y \in S : x <= y

RecordsOf(store, chatId) == { i \in DOMAIN store : store[i].chatId = chatId }

\* C27: the registry never holds two records of one chat. Every operation
\* on the registry leaves each chat that had a record with that one record,
\* in its place, and gives at most one chat a first record: an empty one
\* when the operation saved nothing (a mere lookup, or a call that found
\* nothing to change), and one with the single entry of the call otherwise.
C27_LazyRecord ==
    /\ [](\A chatId \in ChatIds : Cardinality(RecordsOf(subscriptions, chatId)) <= 1)
    /\ [][ subscriptions' # subscriptions =>
             /\ Len(subscriptions') \in { Len(subscriptions), Len(subscriptions) + 1 }
             /\ \A i \in DOMAIN subscriptions :
                  subscriptions'[i].chatId = subscriptions[i].chatId
             /\ Len(subscriptions') > Len(subscriptions) =>
                  LET made == subscriptions'[Len(subscriptions')]
                  IN /\ made.chatId \in ChatIds
                     /\ ~Has(subscriptions, made.chatId)
                     /\ IF disk' = disk
                        THEN made = Subscription(made.chatId, <<>>, <<>>, <<>>)
                        ELSE Entries(made) = 1 ]_vars

\* A chat that was looked up without a record has an empty one, and nothing
\* was saved; then the other chat subscribed.
C27_Witness ==
    /\ Len(subscriptions) = 2
    /\ subscriptions[1] = Subscription(subscriptions[1].chatId, <<>>, <<>>, <<>>)
    /\ Entries(subscriptions[2]) = 1
    /\ Len(disk) = 2
    /\ disk[1] = subscriptions[1]


\* The jobs a change list reports as new.
ReportedNew(ch) == { ch[e].job.job_id : e \in { x \in DOMAIN ch : ch[x].type = "new_job" } }

\* C28: a job is reported by new_job at most once. Step by step: a
\* detection cycle reports as new only jobs that are not in the job snapshot
\* when it starts, each by one event, and they are in the snapshot when it
\* ends; warm-up reports nothing and puts every job it was listed in the
\* snapshot; and no step takes a job out of the snapshot.
C28_NewJobOnce ==
    /\ [][ CheckStep =>
             \A j \in JobIds :
               /\ Cardinality(EventsFor(changes', "new_job", j)) <= 1
               /\ j \in ReportedNew(changes') => j \notin DOMAIN jobs /\ j \in DOMAIN jobs' ]_vars
    /\ [][ WarmUpStep => changes' = <<>> /\ Listed(Fetched) \subseteq DOMAIN jobs' ]_vars
    /\ [][ DOMAIN jobs \subseteq DOMAIN jobs' ]_vars

\* A detection cycle was listed the job that warm-up had been listed, and
\* reported no new job.
C28_Witness ==
    /\ obs.op = "check" /\ rerun = "init"
    /\ "j1" \in Listed(fetchJobs(obs.jobs))
    /\ "j1" \in DOMAIN jobs
    /\ ReportedNew(changes) = {}


\* The places of a change list where a bid is reported as new.
NewBidEvents(ch, b) ==
    { e \in DOMAIN ch : ch[e].type = "new_bid" /\ ch[e].bid.bid_id = b }

\* The bids a response to a bid request lists.
BidsIn(resp) == { fetchJobBids(resp)[x].bid_id : x \in DOMAIN fetchJobBids(resp) }

\* C29: a bid is reported by new_bid at most once. Step by step: a detection
\* cycle reports as new only bids that are not in the bid snapshot when it
\* starts, each by one event, and they are in the snapshot when it ends;
\* warm-up reports nothing and puts every bid it fetched for a listed job in
\* the snapshot; and no step takes a bid out of the snapshot.
C29_NewBidOnce ==
    /\ [][ CheckStep =>
             \A b \in BidIds :
               /\ Cardinality(NewBidEvents(changes', b)) <= 1
               /\ NewBidEvents(changes', b) # {} => b \notin DOMAIN bids /\ b \in DOMAIN bids' ]_vars
    /\ [][ WarmUpStep =>
             /\ changes' = <<>>
             /\ \A j \in Listed(Fetched) : BidsIn(obs'.bids[j]) \subseteq DOMAIN bids' ]_vars
    /\ [][ DOMAIN bids \subseteq DOMAIN bids' ]_vars

\* A detection cycle fetched two bids of a job: the one in the snapshot was
\* not reported, the other was reported as new and is in the snapshot.
C29_Witness ==
    /\ obs.op = "check"
    /\ BidsIn(obs.bids["j1"]) = {"b1", "b2"}
    /\ NewBidEvents(changes, "b1") = {}
    /\ Cardinality(NewBidEvents(changes, "b2")) = 1
    /\ DOMAIN bids = {"b1", "b2"}


\* The record the listing of the step has for job j.
ListedAs(j) == Fetched[CHOOSE i \in DOMAIN Fetched : Fetched[i].job_id = j]

\* C30: the detection cycle that reports a job as new requests none of its
\* bids and adds none of them to the bid snapshot; and a cycle that lists a
\* job of the snapshot with a higher bid_count reports as new_bid every bid
\* of the re-fetch that is not in the bid snapshot, whenever the bid was made.
C30_BidsOfNewJobLeftOut ==
    [][ CheckStep =>
          \A j \in Listed(Fetched) :
            /\ j \in ReportedNew(changes') =>
                 /\ ~Requested(obs', j)
                 /\ \A b \in DOMAIN bids' : bids'[b].job_id = j => b \in DOMAIN bids
            /\ (j \in DOMAIN jobs /\ ListedAs(j).bid_count > jobs[j].bid_count) =>
                 /\ Requested(obs', j)
                 /\ \A b \in BidsIn(obs'.bids[j]) \ DOMAIN bids :
                      Cardinality(NewBidEvents(changes', b)) = 1 ]_vars

\* A job that a detection cycle had put in the snapshot was listed with two
\* bids, and both bids of the re-fetch were reported as new: one of them, at
\* least, is not the bid that raised the count.
C30_Witness ==
    /\ obs.op = "check"
    /\ "j1" \in DOMAIN jobs
    /\ jobs["j1"].bid_count = 2
    /\ ReportedNew(changes) = {}
    /\ BidsIn(obs.bids["j1"]) = {"b1", "b2"}
    /\ NewBidEvents(changes, "b1") # {}
    /\ NewBidEvents(changes, "b2") # {}


\* The places of a change list where a bid of job j is reported as new.
NewBidsOf(ch, j) ==
    { e \in DOMAIN ch : ch[e].type = "new_bid" /\ ch[e].job.job_id = j }

\* C31: a detection cycle whose re-fetch of a job's bids fails reports no
\* new bid of the job and stores the listed record, bid_count included; the
\* detection cycle after it, if it is given the same listing, requests no
\* bids of the job and reports no new bid of it; and no cycle reports a new
\* bid of a job unless the listed bid_count is above the stored one.
C31_FailedRefetchSkipsBids ==
    /\ [][ CheckStep =>
             \A j \in Listed(Fetched) :
               /\ (Requested(obs', j) /\ obs'.bids[j] = Failed) =>
                    /\ NewBidsOf(changes', j) = {}
                    /\ jobs'[j] = ListedAs(j)
                    /\ bids' = bids
               /\ NewBidsOf(changes', j) # {} =>
                    j \in DOMAIN jobs /\ ListedAs(j).bid_count > jobs[j].bid_count ]_vars
    /\ [][ (CheckStep /\ obs.op = "check" /\ Fetched = fetchJobs(obs.jobs)) =>
             \A j \in Listed(Fetched) :
               (Requested(obs, j) /\ obs.bids[j] = Failed) =>
                 /\ ~Requested(obs', j)
                 /\ NewBidsOf(changes', j) = {}
                 /\ bids' = bids ]_vars

\* The re-fetch of a job's bids failed in a detection cycle: the stored
\* bid_count is the listed one, and none of the bids is in the snapshot.
C31_Witness ==
    /\ obs.op = "check"
    /\ Requested(obs, "j1") /\ obs.bids["j1"] = Failed
    /\ "j1" \in DOMAIN jobs
    /\ jobs["j1"].bid_count = 2
    /\ fetchJobs(obs.jobs)[1].bid_count = 2
    /\ DOMAIN bids = {}
    /\ changes = <<>>


\* A run of the timer's callback starts in this step.
CycleStarts ==
    \E c \in DOMAIN cycle : cycle[c].pc = "idle" /\ cycle'[c].pc = "checkForChanges"

\* C32: the timer is scheduled, and the flag set, only when warm-up has
\* returned; a run of the callback starts only with the timer scheduled and
\* the flag set; and checkForChanges runs only after warm-up has returned.
C32_WarmUpFirst ==
    /\ [](scheduled => initialized /\ mainAt = "start")
    /\ [](initialized => obs.op # "none")
    /\ [][ CycleStarts => scheduled /\ initialized /\ obs.op # "none" ]_vars
    /\ [][ obs'.op = "check" => obs.op # "none" ]_vars

\* Main awaited the warm-up, the warm-up returned, and the first run of the
\* callback has called checkForChanges.
C32_Witness ==
    /\ mainAt = "start" /\ scheduled /\ initialized
    /\ obs.op = "init"
    /\ cycle[1].pc = "checkForChanges"

=============================================================================
